---- MODULE Spec2Model ----
(***************************************************************************)
(* snitch: TODO extraction, in-place rewrite and the report run.           *)
(*                                                                         *)
(* A string is a sequence of symbols.  The keyword TODO is one symbol,     *)
(* every other symbol is one character.  A file is a sequence of lines,    *)
(* every line terminated by a newline that is not part of the line.        *)
(***************************************************************************)
EXTENDS Integers, Sequences, FiniteSets, TLC

\* ------------------------------------------------------------------ bounds
MaxLexemes == 6        \* lexemes typed into one line of the grammar model
MaxIssue == 2          \* issue numbers the tracker hands out
MaxLines == 2          \* lines per file
ReaderBufSize == 9     \* bufio.NewReader buffer (4096 in Go), scaled down
MaxScanTokenSize == 11 \* bufio.MaxScanTokenSize (65536 in Go), scaled down

\* ------------------------------------------------------------- variables
VARIABLES
    gline,      \* grammar model: the line typed so far
    gtodo,      \* grammar model: <<>> or <<todo>> parsed from gline
    greparsed,  \* grammar model: LineAsTodo(String(todo))
    gphase,     \* grammar model: "typing", "parsed", "reported", "formatted"
    gcount,     \* grammar model: lexemes typed so far
    fs,         \* file name -> <<>> (no such file) or <<lines>>
    tmpfs,      \* file name -> the file name ++ ".snitch", same shape as fs
    rwTodo,     \* rewrite model: the Todo that Update or Remove is called on
    rwOrig,     \* rewrite model: the lines of the file before the call
    rwFault,    \* rewrite model: what the environment made fail in the call
    rwErr,      \* rewrite model: the error the call returned, "nil" if none
    rwPc,       \* rewrite model: "start", "updated", "removed"
    pc,         \* report run: "list", "walk", "report", "done"
    fs0,        \* report run: the files as they were when the run started
    fileIdx,    \* report run: index in Listing of the file being walked
    wopen,      \* report run: the file at fileIdx is open
    chunkIdx,   \* report run: ReadLine calls that returned text, this file
    visits,     \* report run: the calls of visit, in order
    scanned,    \* report run: the files read up to their end
    errSeen,    \* report run: the errors the walk met, in order
    walkResult, \* report run: what WalkTodosOfDir returned, "running" before
    todosToReport, \* report run: the accepted Todos
    reportIdx,  \* report run: index in todosToReport of the Todo in work
    rstep,      \* report run: the next step, "create" .. "commit"
    cur,        \* report run: <<reportedTodo>> once the issue exists
    issues,     \* report run: issues created on the tracker
    log,        \* report run: the steps taken, in order
    commits,    \* report run: the commits made, in order
    runResult   \* report run: "running", then "nil", an error, or "panic"

gvars == <<gline, gtodo, greparsed, gphase, gcount>>
fsvars == <<fs, tmpfs>>
rwvars == <<rwTodo, rwOrig, rwFault, rwErr, rwPc>>
runvars == <<pc, fs0, fileIdx, wopen, chunkIdx, visits, scanned, errSeen, walkResult,
             todosToReport, reportIdx, rstep, cur, issues, log, commits, runResult>>
vars == <<gline, gtodo, greparsed, gphase, gcount,
          fs, tmpfs, rwTodo, rwOrig, rwFault, rwErr, rwPc,
          pc, fs0, fileIdx, wopen, chunkIdx, visits, scanned, errSeen, walkResult,
          todosToReport, reportIdx, rstep, cur, issues, log, commits, runResult>>

\* --------------------------------------------------------------- strings
Max(S) == CHOOSE x \in S : \A y \in S : y <= x

\* s has pat at position i
StartsAt(s, pat, i) ==
    /\ i >= 1
    /\ i + Len(pat) - 1 <= Len(s)
    /\ SubSeq(s, i, i + Len(pat) - 1) = pat

UnreportedMarker == <<"TODO", ":", " ">>
ReportedOpen == <<"TODO", "(">>
ReportedClose == <<")", ":", " ">>

\* "#" + strconv.Itoa(number)
Digit == <<"1", "2", "3", "4", "5", "6", "7", "8", "9">>
IssueId(n) == <<"#", Digit[n]>>

\* ------------------------------------------------------------------ Todo
\* ID is <<>> for a nil pointer and <<id>> for a pointer to id.
NewTodo(prefix, suffix, id) ==
    [Prefix |-> prefix, Suffix |-> suffix, ID |-> id, Filename |-> "", Line |-> 0]

String(todo) ==
    IF todo.ID = <<>>
    THEN todo.Prefix \o <<"TODO", ":", " ">> \o todo.Suffix
    ELSE todo.Prefix \o <<"TODO", "(">> \o todo.ID[1] \o <<")", ":", " ">> \o todo.Suffix

\* ^(.*)TODO: (.*)$ : the greedy first group ends at the last marker
MatchesUnreported(line) == \E i \in 1..Len(line) : StartsAt(line, UnreportedMarker, i)

lineAsUnreportedTodo(line) ==
    IF MatchesUnreported(line)
    THEN LET i == Max({k \in 1..Len(line) : StartsAt(line, UnreportedMarker, k)})
         IN <<NewTodo(SubSeq(line, 1, i - 1), SubSeq(line, i + 3, Len(line)), <<>>)>>
    ELSE <<>>

\* ^(.*)TODO\((.*)\): (.*)$ : the greedy first group ends at the last TODO(
\* that still has a "): " after it, the greedy second group at the last "): "
ReportedPairs(line) ==
    {p \in (1..Len(line)) \X (1..Len(line)) :
        /\ StartsAt(line, ReportedOpen, p[1])
        /\ StartsAt(line, ReportedClose, p[2])
        /\ p[2] >= p[1] + 2}

MatchesReported(line) == ReportedPairs(line) # {}

lineAsReportedTodo(line) ==
    IF MatchesReported(line)
    THEN LET i == Max({p[1] : p \in ReportedPairs(line)})
             j == Max({p[2] : p \in {q \in ReportedPairs(line) : q[1] = i}})
         IN <<NewTodo(SubSeq(line, 1, i - 1), SubSeq(line, j + 3, Len(line)),
                      <<SubSeq(line, i + 2, j - 1)>>)>>
    ELSE <<>>

LineAsTodo(line) ==
    IF lineAsUnreportedTodo(line) # <<>> THEN lineAsUnreportedTodo(line)
    ELSE IF lineAsReportedTodo(line) # <<>> THEN lineAsReportedTodo(line)
    ELSE <<>>

\* ----------------------------------------------------------------- files
FileNames == {"a.go", "b.go"}

PlainLine == <<"a">>
CrLine == <<"a", "\r">>
TodoLine == <<"TODO", ":", " ", "a">>
ReportedLine == <<"TODO", "(", "#", "1", ")", ":", " ", "a">>
LongLine == [i \in 1..ReaderBufSize |-> "a"]        \* fills the reader's buffer
HugeLine == [i \in 1..MaxScanTokenSize |-> "a"]     \* fills the scanner's buffer
SampleLines == {PlainLine, CrLine, TodoLine, ReportedLine, LongLine, HugeLine}

SeqsUpTo(S, n) == UNION {[1..k -> S] : k \in 0..n}
Contents == SeqsUpTo(SampleLines, MaxLines)

\* what the environment makes fail during one rewrite:
\*   open, create, rename : the system call returns an error
\*   read at k            : the read after k lines returns an error
\*   write at k           : the write of the line read k-th returns an error
\*   close                : closing the output file returns an error
NoFault == [kind |-> "none", at |-> 0]
Faults ==
    {NoFault}
    \cup {[kind |-> k, at |-> 0] : k \in {"open", "create", "close", "rename"}}
    \cup {[kind |-> "read", at |-> k] : k \in 0..(MaxLines - 1)}
    \cup {[kind |-> "write", at |-> k] : k \in 1..MaxLines}

\* bufio.ScanLines drops one trailing carriage return
DropCR(line) ==
    IF Len(line) > 0 /\ line[Len(line)] = "\r"
    THEN SubSeq(line, 1, Len(line) - 1)
    ELSE line

\* The lines scanner.Scan() delivers before it returns false: it stops at the
\* end of the file, at a read error, and at the first line that does not fit
\* into a buffer of MaxScanTokenSize together with its newline.
ScannedCount(lines, fault) ==
    LET tooLong == {i \in 1..Len(lines) : Len(lines[i]) + 1 > MaxScanTokenSize}
        upTo == IF tooLong = {} THEN Len(lines)
                ELSE (CHOOSE i \in tooLong : \A j \in tooLong : i <= j) - 1
    IN IF fault.kind = "read" /\ fault.at < upTo THEN fault.at ELSE upTo

UpdateCallback(todo, lineNumber, line) ==
    IF lineNumber = todo.Line THEN <<String(todo), FALSE>> ELSE <<line, FALSE>>

RemoveCallback(todo, lineNumber, line) ==
    IF lineNumber = todo.Line THEN <<<<>>, TRUE>> ELSE <<line, FALSE>>

\* lineCallback(lineNumber, line): the closure of Update or of Remove,
\* named by op, over todo
lineCallback(op, todo, lineNumber, line) ==
    IF op = "Update" THEN UpdateCallback(todo, lineNumber, line)
    ELSE RemoveCallback(todo, lineNumber, line)

\* The loop of updateToFile: what reaches the output file.  A line whose
\* Fprintln fails is not in the output; the error is dropped.
CopiedLines(lines, op, todo, fault) ==
    LET n == ScannedCount(lines, fault)
        out[i \in 0..n] ==
            IF i = 0 THEN <<>>
            ELSE LET r == lineCallback(op, todo, i, DropCR(lines[i]))
                 IN IF r[2] \/ (fault.kind = "write" /\ fault.at = i)
                    THEN out[i - 1]
                    ELSE Append(out[i - 1], r[1])
    IN out[n]

\* updateToFile: err is "open" or "create" when that call fails.  After both
\* succeeded the function returns the err of os.Create, which is nil: the
\* scanner's error is not read, Fprintln's is dropped, and the deferred
\* closure assigns Close's to a variable that was already returned.
updateToFile(input, op, todo, fault) ==
    IF input = <<>> \/ fault.kind = "open"
    THEN [err |-> "open", created |-> FALSE, out |-> <<>>]
    ELSE IF fault.kind = "create"
    THEN [err |-> "create", created |-> FALSE, out |-> <<>>]
    ELSE [err |-> "nil", created |-> TRUE, out |-> CopiedLines(input[1], op, todo, fault)]

\* updateInPlace on the file of todo: the new fs and tmpfs and the returned error
updateInPlace(fsys, tmp, op, todo, fault) ==
    LET f == todo.Filename
        r == updateToFile(fsys[f], op, todo, fault)
        tmp1 == IF r.created THEN [tmp EXCEPT ![f] = <<r.out>>] ELSE tmp
    IN IF r.err # "nil" THEN [fs |-> fsys, tmpfs |-> tmp1, err |-> r.err]
       ELSE IF fault.kind = "rename" THEN [fs |-> fsys, tmpfs |-> tmp1, err |-> "rename"]
       ELSE [fs |-> [fsys EXCEPT ![f] = tmp1[f]],
             tmpfs |-> [tmp1 EXCEPT ![f] = <<>>],
             err |-> "nil"]

\* the failure named by fault does happen in a rewrite of input: the read
\* that fails is one the scanner makes before it stops by itself, the write
\* that fails is one the loop makes
FaultHappens(input, op, todo, fault) ==
    IF fault.kind = "read"
    THEN input # <<>> /\ fault.at < ScannedCount(input[1], NoFault)
    ELSE IF fault.kind = "write"
    THEN /\ input # <<>>
         /\ fault.at <= ScannedCount(input[1], NoFault)
         /\ ~lineCallback(op, todo, fault.at, DropCR(input[1][fault.at]))[2]
    ELSE TRUE

Update(fsys, tmp, todo, fault) == updateInPlace(fsys, tmp, "Update", todo, fault)

Remove(fsys, tmp, todo, fault) == updateInPlace(fsys, tmp, "Remove", todo, fault)

\* ---------------------------------------------------------- rewrite model
\* One file, and one call of Update or Remove on a Todo located in it.
TodoPool ==
    {[NewTodo(p, <<"a">>, id) EXCEPT !.Filename = "a.go", !.Line = n] :
        p \in {<<>>, <<"a">>}, id \in {<<>>, <<IssueId(1)>>}, n \in 0..(MaxLines + 1)}

FsEmpty ==
    /\ fs = [f \in FileNames |-> <<>>]
    /\ tmpfs = [f \in FileNames |-> <<>>]

RwIdle ==
    /\ rwTodo = <<>>
    /\ rwOrig = <<>>
    /\ rwFault = NoFault
    /\ rwErr = "nil"
    /\ rwPc = "idle"

RwInit ==
    /\ \E c \in Contents : fs = [f \in FileNames |-> IF f = "a.go" THEN <<c>> ELSE <<>>]
    /\ tmpfs = [f \in FileNames |-> <<>>]
    /\ rwTodo \in TodoPool
    /\ rwOrig = fs["a.go"][1]
    /\ rwFault = NoFault
    /\ rwErr = "nil"
    /\ rwPc = "start"

RwUpdate(fault) ==
    /\ rwPc = "start"
    /\ FaultHappens(fs[rwTodo.Filename], "Update", rwTodo, fault)
    /\ LET r == Update(fs, tmpfs, rwTodo, fault)
       IN /\ fs' = r.fs
          /\ tmpfs' = r.tmpfs
          /\ rwErr' = r.err
    /\ rwFault' = fault
    /\ rwPc' = "updated"
    /\ UNCHANGED <<rwTodo, rwOrig, gvars, runvars>>

RwRemove(fault) ==
    /\ rwPc = "start"
    /\ FaultHappens(fs[rwTodo.Filename], "Remove", rwTodo, fault)
    /\ LET r == Remove(fs, tmpfs, rwTodo, fault)
       IN /\ fs' = r.fs
          /\ tmpfs' = r.tmpfs
          /\ rwErr' = r.err
    /\ rwFault' = fault
    /\ rwPc' = "removed"
    /\ UNCHANGED <<rwTodo, rwOrig, gvars, runvars>>

RwNext ==
    \/ \E fault \in Faults : RwUpdate(fault)
    \/ \E fault \in Faults : RwRemove(fault)

GIdle ==
    /\ gline = <<>>
    /\ gtodo = <<>>
    /\ greparsed = <<>>
    /\ gphase = "idle"
    /\ gcount = 0

RunIdle ==
    /\ pc = "idle"
    /\ fs0 = [f \in FileNames |-> <<>>]
    /\ fileIdx = 0
    /\ wopen = FALSE
    /\ chunkIdx = 0
    /\ visits = <<>>
    /\ scanned = <<>>
    /\ errSeen = <<>>
    /\ walkResult = "running"
    /\ todosToReport = <<>>
    /\ reportIdx = 0
    /\ rstep = "create"
    /\ cur = <<>>
    /\ issues = 0
    /\ log = <<>>
    /\ commits = <<>>
    /\ runResult = "running"

RewriteInit == RwInit /\ GIdle /\ RunIdle

SpecRewrite == RewriteInit /\ [][RwNext]_vars

\* ---------------------------------------------------------- grammar model
Lexeme == {<<"TODO">>, <<":", " ">>, <<":">>, <<"(">>, <<")">>, <<"a">>}

GInit ==
    /\ gline = <<>>
    /\ gtodo = <<>>
    /\ greparsed = <<>>
    /\ gphase = "typing"
    /\ gcount = 0

\* one more lexeme of the line under test
GType(lex) ==
    /\ gphase = "typing"
    /\ gcount < MaxLexemes
    /\ gline' = gline \o lex
    /\ gcount' = gcount + 1
    /\ UNCHANGED <<gtodo, greparsed, gphase, fsvars, rwvars, runvars>>

GParse ==
    /\ gphase = "typing"
    /\ gtodo' = LineAsTodo(gline)
    /\ gphase' = "parsed"
    /\ UNCHANGED <<gline, greparsed, gcount, fsvars, rwvars, runvars>>

\* ReportTodo sets the identifier of a Todo that was parsed as unreported
GReport(n) ==
    /\ gphase = "parsed"
    /\ gtodo # <<>>
    /\ gtodo[1].ID = <<>>
    /\ gtodo' = <<[gtodo[1] EXCEPT !.ID = <<IssueId(n)>>]>>
    /\ gphase' = "reported"
    /\ UNCHANGED <<gline, greparsed, gcount, fsvars, rwvars, runvars>>

\* the canonical form is written to the file and read back by the next scan
GFormat ==
    /\ gphase \in {"parsed", "reported"}
    /\ gtodo # <<>>
    /\ greparsed' = LineAsTodo(String(gtodo[1]))
    /\ gphase' = "formatted"
    /\ UNCHANGED <<gline, gtodo, gcount, fsvars, rwvars, runvars>>

GNext ==
    \/ \E lex \in Lexeme : GType(lex)
    \/ GParse
    \/ \E n \in 1..MaxIssue : GReport(n)
    \/ GFormat

GrammarInit == GInit /\ FsEmpty /\ RwIdle /\ RunIdle

SpecGrammar == GrammarInit /\ [][GNext]_vars



\* ------------------------------------------------------------ tree walker
\* git ls-files prints the tracked files; a tracked file may be missing from
\* the working tree.
Listing == <<"a.go", "b.go">>

\* reader.ReadLine() on one line of the file: a line that fills the buffer
\* before its newline comes back in pieces of ReaderBufSize (a carriage
\* return at the end of a piece is left for the next one); the last piece
\* loses "\r\n" or "\n".  The caller drops isPrefix.
RECURSIVE ReadLineChunks(_)
ReadLineChunks(line) ==
    IF Len(line) < ReaderBufSize
    THEN <<DropCR(line)>>
    ELSE LET n == IF line[ReaderBufSize] = "\r" THEN ReaderBufSize - 1 ELSE ReaderBufSize
         IN <<SubSeq(line, 1, n)>> \o ReadLineChunks(SubSeq(line, n + 1, Len(line)))

\* all the texts ReadLine returns for a file, each with the index of the
\* physical line it is a piece of
FileChunks(lines) ==
    LET f[i \in 0..Len(lines)] ==
            IF i = 0 THEN <<>>
            ELSE LET cs == ReadLineChunks(lines[i])
                 IN f[i - 1] \o [j \in 1..Len(cs) |-> [text |-> cs[j], phys |-> i]]
    IN f[Len(lines)]

\* a callback that queues the Todo whatever the operator answers
visit_QueueDeclined(todo, answer) ==
    IF todo.ID = <<>>
    THEN IF answer = "err" THEN [err |-> "stdin", add |-> FALSE, asked |-> TRUE]
         ELSE [err |-> "nil", add |-> TRUE, asked |-> TRUE]
    ELSE [err |-> "nil", add |-> FALSE, asked |-> FALSE]

\* the callback of reportSubcommand; answer is what the operator finally
\* types: "y", "n", or "err" when reading standard input fails
visit(todo, answer) ==
    IF todo.ID = <<>>
    THEN IF answer = "err" THEN [err |-> "stdin", add |-> FALSE, asked |-> TRUE]
         ELSE IF answer = "n" THEN [err |-> "nil", add |-> FALSE, asked |-> TRUE]
         ELSE [err |-> "nil", add |-> TRUE, asked |-> TRUE]
    ELSE [err |-> "nil", add |-> FALSE, asked |-> FALSE]

\* one turn of the loop of WalkTodosOfFile on the text ReadLine returned:
\* the Todo handed to visit (<<>> if the text is no Todo)
TodoOfChunk(path, line, text) ==
    IF LineAsTodo(text) = <<>> THEN <<>>
    ELSE <<[LineAsTodo(text)[1] EXCEPT !.Filename = path, !.Line = line]>>

\* a walk that goes on to the next file whatever the last one returned
WalkTodosOfDirNext_KeepGoing(err) == "continue"

\* WalkTodosOfDir after WalkTodosOfFile returned err
WalkTodosOfDirNext(err) == IF err # "nil" THEN "return" ELSE "continue"

\* WalkTodosOfFile after visit returned err
WalkTodosOfFileNext(err) == IF err # "nil" THEN "return" ELSE "continue"

\* -------------------------------------------------------------- report run
RunLines == {PlainLine, TodoLine, ReportedLine, LongLine}
RunContents == SeqsUpTo(RunLines, MaxLines)
\* the second file: missing, empty, or one line with a Todo
SecondFile == {<<>>} \cup {<<c>> : c \in SeqsUpTo({TodoLine, ReportedLine}, 1)}

RunInit ==
    /\ \E a \in RunContents, b \in SecondFile :
          fs = [f \in FileNames |-> IF f = "a.go" THEN <<a>> ELSE b]
    /\ tmpfs = [f \in FileNames |-> <<>>]
    /\ fs0 = fs
    /\ pc = "list"
    /\ fileIdx = 0
    /\ wopen = FALSE
    /\ chunkIdx = 0
    /\ visits = <<>>
    /\ scanned = <<>>
    /\ errSeen = <<>>
    /\ walkResult = "running"
    /\ todosToReport = <<>>
    /\ reportIdx = 0
    /\ rstep = "create"
    /\ cur = <<>>
    /\ issues = 0
    /\ log = <<>>
    /\ commits = <<>>
    /\ runResult = "running"

notrun == <<gline, gtodo, greparsed, gphase, gcount, rwTodo, rwOrig, rwFault, rwErr, rwPc>>
reportvars == <<todosToReport, reportIdx, rstep, cur, issues, log, commits>>

\* the walk met the error err: WalkTodosOfDir returns it or goes on
WalkError(err, nvisits) ==
    /\ errSeen' = Append(errSeen, [cause |-> err, nvisits |-> nvisits])
    /\ IF WalkTodosOfDirNext(err) = "return"
       THEN /\ walkResult' = err
            /\ pc' = "done"
            /\ runResult' = err
            /\ UNCHANGED fileIdx
       ELSE /\ fileIdx' = fileIdx + 1
            /\ UNCHANGED <<pc, runResult, walkResult>>
    /\ wopen' = FALSE
    /\ chunkIdx' = 0

\* exec.Command("git", "ls-files", dirpath).Run()
ListFiles(ok) ==
    /\ pc = "list"
    /\ IF ok
       THEN /\ pc' = "walk"
            /\ fileIdx' = 1
            /\ UNCHANGED <<errSeen, runResult, walkResult>>
       ELSE /\ pc' = "done"
            /\ runResult' = "list"
            /\ walkResult' = "list"
            /\ errSeen' = Append(errSeen, [cause |-> "list", nvisits |-> 0])
            /\ UNCHANGED fileIdx
    /\ UNCHANGED <<fs, tmpfs, fs0, wopen, chunkIdx, visits, scanned, reportvars, notrun>>

\* os.Open(path) at the head of WalkTodosOfFile
WalkOpen(ok) ==
    /\ pc = "walk"
    /\ ~wopen
    /\ fileIdx <= Len(Listing)
    /\ IF ok /\ fs[Listing[fileIdx]] # <<>>
       THEN /\ wopen' = TRUE
            /\ chunkIdx' = 0
            /\ UNCHANGED <<pc, fileIdx, errSeen, runResult, walkResult>>
       ELSE WalkError("open", Len(visits))
    /\ UNCHANGED <<fs, tmpfs, fs0, visits, scanned, reportvars, notrun>>

\* reader.ReadLine() and the turn of the loop it feeds
WalkReadLine(readOk, answer) ==
    /\ pc = "walk"
    /\ wopen
    /\ LET path == Listing[fileIdx]
           chunks == FileChunks(fs[path][1])
       IN IF ~readOk
          THEN /\ WalkError("read", Len(visits))
               /\ UNCHANGED <<visits, scanned, todosToReport>>
          ELSE IF chunkIdx = Len(chunks)
          THEN \* io.EOF: WalkTodosOfFile returns nil
               /\ scanned' = Append(scanned, path)
               /\ fileIdx' = fileIdx + 1
               /\ wopen' = FALSE
               /\ chunkIdx' = 0
               /\ UNCHANGED <<pc, visits, errSeen, runResult, walkResult, todosToReport>>
          ELSE LET line == chunkIdx + 1
                   todo == TodoOfChunk(path, line, chunks[line].text)
               IN IF todo = <<>>
                  THEN /\ chunkIdx' = line
                       /\ UNCHANGED <<pc, fileIdx, wopen, visits, scanned, errSeen,
                                      runResult, walkResult, todosToReport>>
                  ELSE LET r == visit(todo[1], answer)
                       IN /\ visits' = Append(visits,
                                 [todo |-> todo[1],
                                  answer |-> IF r.asked THEN answer ELSE "none",
                                  file |-> path,
                                  phys |-> chunks[line].phys])
                          /\ todosToReport' =
                                 IF r.add THEN Append(todosToReport, todo[1])
                                 ELSE todosToReport
                          /\ IF WalkTodosOfFileNext(r.err) = "return"
                             THEN WalkError(r.err, Len(visits) + 1)
                             ELSE /\ chunkIdx' = line
                                  /\ UNCHANGED <<pc, fileIdx, wopen, errSeen, runResult,
                                                 walkResult>>
                          /\ UNCHANGED scanned
    /\ UNCHANGED <<fs, tmpfs, fs0, reportIdx, rstep, cur, issues, log, commits, notrun>>

\* the listing is exhausted: WalkTodosOfDir returns nil and the report loop
\* starts
WalkDone ==
    /\ pc = "walk"
    /\ ~wopen
    /\ fileIdx > Len(Listing)
    /\ walkResult' = "nil"
    /\ pc' = "report"
    /\ reportIdx' = 1
    /\ rstep' = "create"
    /\ UNCHANGED <<fs, tmpfs, fs0, fileIdx, wopen, chunkIdx, visits, scanned, errSeen,
                   todosToReport, cur, issues, log, commits, runResult, notrun>>

\* ReportTodo: resp is <<>> when the request fails or the answer carries no
\* issue number, else <<number>>.  json["number"].(float64) is evaluated
\* before err is looked at, and panics on the nil it finds after a failure.
ReportTodo(todo, resp) ==
    IF resp = <<>>
    THEN [panic |-> TRUE, todo |-> todo, err |-> "http"]
    ELSE [panic |-> FALSE, todo |-> [todo EXCEPT !.ID = <<IssueId(resp[1])>>], err |-> "nil"]

\* the message of the commit: fmt.Sprintf("%s TODO(%s)", prefix, *todo.ID)
CommitMessage(prefix, todo) ==
    prefix \o <<" ", "TODO", "(">> \o todo.ID[1] \o <<")">>

\* the physical line of its file a Todo of the walk was parsed from
PhysLine(todo) == FileChunks(fs0[todo.Filename][1])[todo.Line].phys

\* the rewrite put the canonical form of todo on the line it was parsed from
\* and left the rest of the file alone
Persisted(before, after, todo) ==
    /\ before # <<>>
    /\ PhysLine(todo) <= Len(before[1])
    /\ after = <<[before[1] EXCEPT ![PhysLine(todo)] = String(todo)]>>

\* reportSubcommand returns err
RunAbort(err) ==
    /\ pc' = "done"
    /\ runResult' = err

\* ReportTodo(todo, creds, repo) and the check of its error
RCreate(ok) ==
    /\ pc = "report"
    /\ rstep = "create"
    /\ reportIdx <= Len(todosToReport)
    /\ LET r == ReportTodo(todosToReport[reportIdx], IF ok THEN <<issues + 1>> ELSE <<>>)
       IN /\ log' = Append(log, [k |-> reportIdx, step |-> "create", ok |-> ok, clean |-> ok])
          /\ IF r.panic
             THEN /\ RunAbort("panic")
                  /\ UNCHANGED <<cur, issues, rstep>>
             ELSE IF r.err # "nil"
             THEN /\ RunAbort(r.err)
                  /\ UNCHANGED <<cur, issues, rstep>>
             ELSE /\ cur' = <<r.todo>>
                  /\ issues' = issues + 1
                  /\ rstep' = "rewrite"
                  /\ UNCHANGED <<pc, runResult>>
    /\ UNCHANGED <<fs, tmpfs, fs0, fileIdx, wopen, chunkIdx, visits, scanned, errSeen,
                   walkResult, todosToReport, reportIdx, commits, notrun>>

\* reportedTodo.UpdateInPlace() and the check of its error
RRewrite(fault) ==
    /\ pc = "report"
    /\ rstep = "rewrite"
    /\ FaultHappens(fs[cur[1].Filename], "Update", cur[1], fault)
    /\ LET r == Update(fs, tmpfs, cur[1], fault)
       IN /\ fs' = r.fs
          /\ tmpfs' = r.tmpfs
          /\ log' = Append(log, [k |-> reportIdx, step |-> "rewrite",
                                 ok |-> r.err = "nil" /\ fault = NoFault
                                        /\ Persisted(fs[cur[1].Filename],
                                                     r.fs[cur[1].Filename], cur[1]),
                                 clean |-> fault = NoFault])
          /\ IF r.err # "nil"
             THEN /\ RunAbort(r.err)
                  /\ UNCHANGED rstep
             ELSE /\ rstep' = "stage"
                  /\ UNCHANGED <<pc, runResult>>
    /\ UNCHANGED <<fs0, fileIdx, wopen, chunkIdx, visits, scanned, errSeen,
                   walkResult, todosToReport, reportIdx, cur, issues, commits, notrun>>

\* exec.Command("git", "add", reportedTodo.Filename).Run()
RStage(ok) ==
    /\ pc = "report"
    /\ rstep = "stage"
    /\ log' = Append(log, [k |-> reportIdx, step |-> "stage", ok |-> ok, clean |-> ok])
    /\ IF ok
       THEN /\ rstep' = "commit"
            /\ UNCHANGED <<pc, runResult>>
       ELSE /\ RunAbort("git add")
            /\ UNCHANGED rstep
    /\ UNCHANGED <<fs, tmpfs, fs0, fileIdx, wopen, chunkIdx, visits, scanned, errSeen,
                   walkResult, todosToReport, reportIdx, cur, issues, commits, notrun>>

\* exec.Command("git", "commit", "-m", reportedTodo.CommitMessage()).Run()
RCommit(ok) ==
    /\ pc = "report"
    /\ rstep = "commit"
    /\ log' = Append(log, [k |-> reportIdx, step |-> "commit", ok |-> ok, clean |-> ok])
    /\ IF ok
       THEN /\ commits' = Append(commits, [file |-> cur[1].Filename,
                                           msg |-> CommitMessage(<<"a">>, cur[1])])
            /\ reportIdx' = reportIdx + 1
            /\ rstep' = "create"
            /\ cur' = <<>>
            /\ UNCHANGED <<pc, runResult>>
       ELSE /\ RunAbort("git commit")
            /\ UNCHANGED <<commits, reportIdx, rstep, cur>>
    /\ UNCHANGED <<fs, tmpfs, fs0, fileIdx, wopen, chunkIdx, visits, scanned, errSeen,
                   walkResult, todosToReport, issues, notrun>>

\* the loop over todosToReport is through: reportSubcommand returns nil
RDone ==
    /\ pc = "report"
    /\ rstep = "create"
    /\ reportIdx > Len(todosToReport)
    /\ RunAbort("nil")
    /\ UNCHANGED <<fs, tmpfs, fs0, fileIdx, wopen, chunkIdx, visits, scanned, errSeen,
                   walkResult, reportvars, notrun>>

RunNext ==
    \/ \E ok \in BOOLEAN : ListFiles(ok)
    \/ \E ok \in BOOLEAN : WalkOpen(ok)
    \/ \E readOk \in BOOLEAN, answer \in {"y", "n", "err"} : WalkReadLine(readOk, answer)
    \/ WalkDone
    \/ \E ok \in BOOLEAN : RCreate(ok)
    \/ \E fault \in Faults : RRewrite(fault)
    \/ \E ok \in BOOLEAN : RStage(ok)
    \/ \E ok \in BOOLEAN : RCommit(ok)
    \/ RDone

ReportInit == RunInit /\ GIdle /\ RwIdle

SpecRun == ReportInit /\ [][RunNext]_vars


\* ================================================================ claims
SameTodo(a, b) == a.Prefix = b.Prefix /\ a.Suffix = b.Suffix /\ a.ID = b.ID

RwInRange == rwTodo.Line >= 1 /\ rwTodo.Line <= Len(rwOrig)

\* rwOrig without its n-th line
DropLine(lines, n) == SubSeq(lines, 1, n - 1) \o SubSeq(lines, n + 1, Len(lines))

\* C1: after Update() on a Todo whose Line N is a line of the file, the file
\* has the same number of lines, line N is the Todo's canonical form and
\* every other line is what it was.  Stated for the calls in which no system
\* call fails.
C1_UpdateFrame ==
    (rwPc = "updated" /\ RwInRange /\ rwFault = NoFault)
        => fs["a.go"] = <<[rwOrig EXCEPT ![rwTodo.Line] = String(rwTodo)]>>

\* C2: after Remove() on a Todo whose Line N is a line of the file, the file
\* is the old sequence of lines without the N-th.  Stated for the calls in
\* which no system call fails.
C2_RemoveDropsOneLine ==
    (rwPc = "removed" /\ RwInRange /\ rwFault = NoFault)
        => fs["a.go"] = <<DropLine(rwOrig, rwTodo.Line)>>

\* C3: when a read of the source or a write or the close of the temporary
\* file fails, the rewrite returns an error, the rename is not done and the
\* original file keeps its old content.
C3_FailedRewriteLeavesFile ==
    (rwPc \in {"updated", "removed"} /\ rwFault.kind \in {"read", "write", "close"})
        => (rwErr # "nil" /\ fs["a.go"] = <<rwOrig>>)

\* C4: parsing the canonical form of a Todo gives back its prefix, suffix
\* and identifier, for a Todo as parsed and for a Todo parsed as unreported
\* whose identifier the report workflow has set.
C4_RoundTrip ==
    gphase = "formatted"
        => (greparsed # <<>> /\ SameTodo(greparsed[1], gtodo[1]))

\* C5: a line of the reported shape is parsed as a reported Todo whose ID is
\* the parenthesized group, and no line has both shapes.
C5_ReportedShapeWins ==
    (gphase = "parsed" /\ MatchesReported(gline))
        => /\ gtodo # <<>>
           /\ gtodo[1].ID = lineAsReportedTodo(gline)[1].ID
           /\ ~MatchesUnreported(gline)

\* the Todos in the files of the listing, counted as the walker finds them
TodoChunks(path) ==
    IF fs0[path] = <<>> THEN {}
    ELSE {i \in 1..Len(FileChunks(fs0[path][1])) :
             LineAsTodo(FileChunks(fs0[path][1])[i].text) # <<>>}

RECURSIVE TotalTodoChunks(_)
TotalTodoChunks(n) ==
    IF n = 0 THEN 0 ELSE TotalTodoChunks(n - 1) + Cardinality(TodoChunks(Listing[n]))

\* C6: the walk is fail-fast.  The first error the walk meets (listing,
\* open, read, or the callback's) is what WalkTodosOfDir returns, and visit
\* is not called after it; the end of a file is no error; a walk that meets
\* no error reads every listed file to its end and returns nil.
C6_WalkFailFast ==
    /\ errSeen # <<>> =>
          /\ walkResult = errSeen[1].cause
          /\ Len(visits) = errSeen[1].nvisits
          /\ Len(errSeen) = 1
    /\ (errSeen = <<>> /\ walkResult # "running") =>
          /\ walkResult = "nil"
          /\ scanned = Listing
          /\ Len(visits) = TotalTodoChunks(Len(Listing))

\* C6 witness: reading the first file failed after a Todo of it was visited,
\* the walk returned that error, and the Todo of the second file was never
\* visited
C6_Witness ==
    /\ walkResult = "read"
    /\ fileIdx = 1
    /\ Len(visits) = 1
    /\ fs0["b.go"] = <<<<TodoLine>>>>

StepBefore(step) ==
    IF step = "rewrite" THEN "create"
    ELSE IF step = "stage" THEN "rewrite"
    ELSE "stage"

\* C7: for every accepted Todo the steps are create-issue, rewrite of its
\* source line with the returned identifier, stage, commit with a message
\* that embeds the identifier; a step starts only after the step before it
\* succeeded, create-issue runs once per accepted Todo, and the next Todo
\* starts only after the current one is committed.
C7_StepOrder ==
    /\ \A i \in 1..Len(log) :
          IF log[i].step = "create"
          THEN \/ i = 1 /\ log[i].k = 1
               \/ /\ i > 1
                  /\ log[i - 1].k = log[i].k - 1
                  /\ log[i - 1].step = "commit"
                  /\ log[i - 1].ok
          ELSE /\ i > 1
               /\ log[i - 1].k = log[i].k
               /\ log[i - 1].step = StepBefore(log[i].step)
               /\ log[i - 1].ok
    /\ \A k \in 1..Len(todosToReport) :
          Cardinality({i \in 1..Len(log) : log[i].k = k /\ log[i].step = "create"})
              <= 1
    /\ runResult = "nil" =>
          \A k \in 1..Len(todosToReport) :
              \E i \in 1..Len(log) : log[i].k = k /\ log[i].step = "create"
    /\ \A j \in 1..Len(commits) :
          commits[j].msg = <<"a", " ", "TODO", "(">> \o IssueId(j) \o <<")">>

\* C8: a failure of create-issue, rewrite, stage or commit ends the run at
\* once with an error value: the failed step is the last step of the run,
\* and the run returns an error (it neither returns nil nor panics).
C8_FailFast ==
    \A i \in 1..Len(log) :
        ~log[i].ok =>
            /\ i = Len(log)
            /\ pc = "done"
            /\ runResult \notin {"nil", "panic", "running"}

IsAccepted(v) == v.answer = "y"

\* the Todos of the visits answered "y", in order
AcceptedTodos ==
    LET acc == SelectSeq(visits, IsAccepted)
    IN [i \in 1..Len(acc) |-> acc[i].todo]

\* C9: a Todo is presented for confirmation exactly when it has no
\* identifier; the Todos queued for reporting are the ones answered "y", so
\* no step is ever taken for a declined Todo or for one that carried an
\* identifier; a walk stops on an error of standard input only, never on a
\* "n", and a walk that returned nil has visited every Todo.
C9_OnlyAcceptedReported ==
    /\ \A i \in 1..Len(visits) :
          (visits[i].answer # "none") <=> (visits[i].todo.ID = <<>>)
    /\ todosToReport = AcceptedTodos
    /\ \A i \in 1..Len(log) :
          /\ log[i].k \in 1..Len(todosToReport)
          /\ \A j \in 1..Len(visits) :
                (visits[j].todo.Filename = todosToReport[log[i].k].Filename
                    /\ visits[j].todo.Line = todosToReport[log[i].k].Line)
                => (visits[j].answer = "y" /\ visits[j].todo.ID = <<>>)
    /\ cur # <<>> =>
          /\ cur[1].Filename = todosToReport[reportIdx].Filename
          /\ cur[1].Line = todosToReport[reportIdx].Line
    /\ (errSeen # <<>> /\ errSeen[1].cause = "stdin") =>
          visits[errSeen[1].nvisits].answer = "err"
    /\ walkResult = "nil" => Len(visits) = TotalTodoChunks(Len(Listing))

\* C9 witness: the run is through, a Todo was declined, a later one accepted
\* and committed, and a Todo that carried an identifier was visited
C9_Witness ==
    /\ pc = "done"
    /\ runResult = "nil"
    /\ Len(commits) = 1
    /\ \E i, j \in 1..Len(visits) :
          i < j /\ visits[i].answer = "n" /\ visits[j].answer = "y"
    /\ \E i \in 1..Len(visits) : visits[i].answer = "none"

\* C10: a Todo handed to visit carries the name of the scanned file and the
\* 1-based index of the physical line it was parsed from, and Update() on it
\* puts its canonical form on that physical line.
C10_LineIsPhysicalLine ==
    /\ \A i \in 1..Len(visits) :
          /\ visits[i].todo.Filename = visits[i].file
          /\ visits[i].todo.Line = visits[i].phys
    /\ \A i \in 1..Len(log) :
          (log[i].step = "rewrite" /\ log[i].clean) => log[i].ok
====
